---------------------------- MODULE Spec2Model ----------------------------
(***************************************************************************)
(* A model of generate_map.py: the script that lists the XML resources of  *)
(* an index page, extracts the controlled zones of every resource as       *)
(* GeoJSON features and writes one FeatureCollection file.                  *)
(*                                                                         *)
(* Python values are encoded as follows.                                   *)
(*   - a value that is either None or a str is None (the empty tuple) or   *)
(*     Str(s) (the one-element tuple holding the TLA+ string s), so that    *)
(*     None and the empty string "" differ and both compare with any str;  *)
(*   - the result of Element.find is NoElement or Elem(text), text being   *)
(*     the .text of the element found (None or Str(s));                    *)
(*   - a float is the integer it denotes (the texts of the model denote    *)
(*     whole numbers), a [lon, lat] list is the pair <<lon, lat>>;         *)
(*   - a dict is a record, a list is a sequence.                           *)
(***************************************************************************)
EXTENDS Integers, Sequences, FiniteSets, TLC

VARIABLES
  pc,                \* position of __main__: "start", "cleaned", "listed", "done"
                     \* ("cleaned_twice": after a second clean_old_files())
  fs,                \* the file system: [dirs: set of directories, files: entry -> content]
  fs0,               \* the file system when the run began
  index_response,    \* response of fetch_xml_urls: the answer to the index fetch
  xml_response,      \* response of process_xml_to_geojson: the answer to the last
                     \* resource fetch
  xml_urls,          \* the list fetch_xml_urls returned
  pos,               \* 1-based position of the for loop of process_xml_to_geojson
  geojson_features,  \* the list process_xml_to_geojson accumulates
  log                \* the external operations of the run so far, in order

vars == <<pc, fs, fs0, index_response, xml_response, xml_urls, pos, geojson_features, log>>

----------------------------------------------------------------------------
(* Program constants.                                                       *)

BASE_URL == "https://infocar.dgt.es/datex2/v3/dgt/zbe/ControledZonePublication/"
OUTPUT_DIR == "data"
GEOJSON_FILE == "low_emission_zones.geojson"
UNKNOWN_ZONE == "Unknown Zone"

(* Bounds of the model.                                                     *)
MaxLinks == 3       \* anchors of an index page (listing runs)
MaxResources == 3   \* anchors of an index page (full runs)
MaxZones == 2       \* zones of a document (full runs)
MaxPolys == 2       \* polygon elements of a zone (zone runs)
MaxCoords == 3      \* coordinate elements of a polygon element (zone runs)

----------------------------------------------------------------------------
(* Python values.                                                           *)

None == <<>>
Str(s) == <<s>>
NoElement == <<>>
Elem(text) == <<text>>

\* All sequences over S of length at most n.
SeqUpTo(S, n) == UNION {[1..k -> S] : k \in 0..n}

\* str.endswith and str.startswith.
endswith(s, suffix) ==
  /\ Len(s) >= Len(suffix)
  /\ SubSeq(s, Len(s) - Len(suffix) + 1, Len(s)) = suffix

startswith(s, prefix) ==
  /\ Len(s) >= Len(prefix)
  /\ SubSeq(s, 1, Len(prefix)) = prefix

\* os.path.join of a directory and a name.
path_join(dir, name) == dir \o "/" \o name

----------------------------------------------------------------------------
(* fetch_xml_urls.  An index response is [status, links]: status is "ok"    *)
(* or "request_error" (requests.get or raise_for_status raised a           *)
(* RequestException); links are the anchors of the page in document order, *)
(* each [href |-> None or Str(s)].                                          *)

\* A faulty variant of link_selected: the extension is compared ignoring case.
link_selected_any_case(link) ==
  /\ link.href # None
  /\ link.href[1] # ""
  /\ \/ endswith(link.href[1], ".xml")
     \/ endswith(link.href[1], ".XML")

\* `href and href.endswith('.xml')`
link_selected(link) ==
  /\ link.href # None
  /\ link.href[1] # ""
  /\ endswith(link.href[1], ".xml")

\* The for loop over links, appending to xml_urls.
RECURSIVE collect_xml_urls(_, _)
collect_xml_urls(acc, links) ==
  IF links = <<>> THEN acc
  ELSE collect_xml_urls(
         IF link_selected(Head(links))
           THEN Append(acc, BASE_URL \o Head(links).href[1])
           ELSE acc,
         Tail(links))

fetch_xml_urls(response) ==
  IF response.status = "ok"
    THEN collect_xml_urls(<<>>, response.links)
    ELSE <<>>

----------------------------------------------------------------------------
(* The extraction of one document (the body of the try block of            *)
(* process_xml_to_geojson).                                                 *)
(*                                                                         *)
(* A resource response is [status, zones]: status is "ok", "request_error" *)
(* (requests.get or raise_for_status raised) or "parse_error"              *)
(* (ET.fromstring raised ParseError); zones are the controlledZone         *)
(* elements of the document in document order.  A zone is                  *)
(*   [names    |-> the .text of its conz:name/com:values/com:value         *)
(*                 elements, in document order,                            *)
(*    polygons |-> its openlrPolygonCorners elements, in document order],  *)
(* a polygon element is the sequence of its openlrCoordinates children,    *)
(* and a coordinate element is                                             *)
(*   [latitude  |-> NoElement or Elem(text of its first loc:latitude),     *)
(*    longitude |-> NoElement or Elem(text of its first loc:longitude)].   *)

\* The texts float() accepts, with the number each denotes.  float strips
\* white space and reads "1" and "1.0" as the same number.
FloatValue ==
  [t \in {"1", "1.0", " 1 ", "2", "2.0", "3", "4", "5", "6"} |->
     CASE t \in {"1", "1.0", " 1 "} -> 1
       [] t \in {"2", "2.0"} -> 2
       [] t = "3" -> 3
       [] t = "4" -> 4
       [] t = "5" -> 5
       [] t = "6" -> 6]

\* float(coord.find(tag).text) raises: AttributeError when find returned None,
\* TypeError when the element has no text, ValueError when the text is no number.
float_raises(found) ==
  \/ found = NoElement
  \/ found[1] = None
  \/ found[1][1] \notin DOMAIN FloatValue

\* float(coord.find(tag).text), when it does not raise.
float_of(found) == FloatValue[found[1][1]]

coord_raises(coord) ==
  float_raises(coord.latitude) \/ float_raises(coord.longitude)

\* coords.append([lon, lat])
coord_pair(coord) == <<float_of(coord.longitude), float_of(coord.latitude)>>

polygon_raises(polygon) ==
  \E k \in 1..Len(polygon) : coord_raises(polygon[k])

\* A faulty variant of build_ring: every non-empty ring gets a closing point.
build_ring_always_closed(polygon) ==
  LET coords == [k \in 1..Len(polygon) |-> coord_pair(polygon[k])]
  IN  IF coords # <<>> THEN Append(coords, coords[1]) ELSE coords

\* The ring of one polygon element: the inner for loop, then the closing
\* `if coords and coords[0] != coords[-1]: coords.append(coords[0])`.
build_ring(polygon) ==
  LET coords == [k \in 1..Len(polygon) |-> coord_pair(polygon[k])]
  IN  IF coords # <<>> /\ coords[1] # coords[Len(coords)]
        THEN Append(coords, coords[1])
        ELSE coords

zone_raises(zone) ==
  \E k \in 1..Len(zone.polygons) : polygon_raises(zone.polygons[k])

\* zone_name_elem.text if zone_name_elem is not None else "Unknown Zone"
zone_name(zone) ==
  IF zone.names = <<>> THEN Str(UNKNOWN_ZONE) ELSE zone.names[1]

\* polygons, after the loop over the zone's polygon elements.
zone_polygons(zone) ==
  [k \in 1..Len(zone.polygons) |-> build_ring(zone.polygons[k])]

\* A faulty variant of make_feature: every ring is a polygon group of its own.
make_feature_group_per_ring(name, polygons) ==
  [type |-> "Feature",
   properties |-> [name |-> name],
   geometry |-> [type |-> "MultiPolygon",
                 coordinates |-> [k \in 1..Len(polygons) |-> <<polygons[k]>>]]]

make_feature(name, polygons) ==
  [type |-> "Feature",
   properties |-> [name |-> name],
   geometry |-> [type |-> "MultiPolygon", coordinates |-> <<polygons>>]]

\* `if polygons: geojson_features.append(feature)`
append_zone(features, zone) ==
  IF zone_polygons(zone) # <<>>
    THEN Append(features, make_feature(zone_name(zone), zone_polygons(zone)))
    ELSE features

\* The loop over the zones of one document.  An exception raised in a zone
\* leaves the loop; what was appended to geojson_features before stays.
RECURSIVE process_zones(_, _)
process_zones(features, zones) ==
  IF zones = <<>> THEN features
  ELSE IF zone_raises(Head(zones)) THEN features
  ELSE process_zones(append_zone(features, Head(zones)), Tail(zones))

\* A faulty variant of process_response: a failed fetch or parse starts the
\* list over.
process_response_resetting(features, response) ==
  IF response.status = "ok"
    THEN process_zones(features, response.zones)
    ELSE <<>>

\* One iteration of `for url in xml_urls`: geojson_features afterwards.
process_response(features, response) ==
  IF response.status = "ok"
    THEN process_zones(features, response.zones)
    ELSE features

----------------------------------------------------------------------------
(* The file system.  fs.dirs is the set of directories that exist and      *)
(* fs.files maps every regular file, [dir, name], to its content.  The     *)
(* content of the output file is the collection json.dump wrote to it.     *)

feature_collection(features) ==
  [type |-> "FeatureCollection", features |-> features]

OutputEntry == [dir |-> OUTPUT_DIR, name |-> GEOJSON_FILE]

\* A faulty variant of glob_matches: the pattern is matched in subdirectories too.
glob_matches_recursive(entry) ==
  /\ startswith(entry.dir, OUTPUT_DIR)
  /\ endswith(entry.name, ".xml")
  /\ ~startswith(entry.name, ".")

\* glob.glob(os.path.join(OUTPUT_DIR, '*.xml')): the entries directly inside
\* OUTPUT_DIR whose name ends in ".xml"; glob's "*" matches no leading dot.
glob_matches(entry) ==
  /\ entry.dir = OUTPUT_DIR
  /\ endswith(entry.name, ".xml")
  /\ ~startswith(entry.name, ".")

\* clean_old_files: os.remove of every match.
clean_old_files(filesys) ==
  LET kept == {e \in DOMAIN filesys.files : ~glob_matches(e)}
  IN  [dirs |-> filesys.dirs, files |-> [e \in kept |-> filesys.files[e]]]

\* save_geojson: os.makedirs(OUTPUT_DIR) if it does not exist, then the file
\* is opened with 'w' and the data dumped into it.
save_geojson(filesys, data, filename) ==
  LET target == [dir |-> OUTPUT_DIR, name |-> filename]
  IN  [dirs |-> filesys.dirs \cup {OUTPUT_DIR},
       files |-> [e \in DOMAIN filesys.files \cup {target} |->
                    IF e = target THEN data ELSE filesys.files[e]]]

\* A faulty variant of should_save: the check of the feature list is missing.
should_save_unchecked(urls, features) == urls # <<>>

\* `if xml_urls:` and `if geojson_data['features']:` of __main__.
should_save(urls, features) == urls # <<>> /\ features # <<>>

\* A faulty variant of url_at: the list is walked from its end.
url_at_reversed(urls, k) == urls[Len(urls) + 1 - k]

\* The address the loop of process_xml_to_geojson fetches at position k.
url_at(urls, k) == urls[k]

----------------------------------------------------------------------------
(* The steps of a run.  Every step appends the external operation it makes *)
(* to log.  The server answers every fetch as it pleases: two fetches of   *)
(* the same address may be answered differently.                           *)

LogEntry(op, target) == [op |-> op, target |-> target]

\* The value of a response variable before the first assignment to it.
Unbound == [status |-> "unbound"]

\* clean_old_files(), called at position `from` of the run.
clean_old_files_step(from, to) ==
  /\ pc = from
  /\ pc' = to
  /\ fs' = clean_old_files(fs)
  /\ log' = Append(log, LogEntry("clean", OUTPUT_DIR))
  /\ UNCHANGED <<fs0, index_response, xml_response, xml_urls, pos, geojson_features>>

\* xml_urls = fetch_xml_urls()
fetch_xml_urls_step(IndexAnswers) ==
  /\ pc = "cleaned"
  /\ \E answer \in IndexAnswers :
       /\ index_response' = answer
       /\ xml_urls' = fetch_xml_urls(answer)
  /\ pos' = 1
  /\ pc' = "listed"
  /\ log' = Append(log, LogEntry("GET", BASE_URL))
  /\ UNCHANGED <<fs, fs0, xml_response, geojson_features>>

\* One iteration of the loop of process_xml_to_geojson.
process_resource_step(ResourceAnswers) ==
  /\ pc = "listed"
  /\ pos <= Len(xml_urls)
  /\ LET url == url_at(xml_urls, pos)
     IN  /\ \E answer \in ResourceAnswers :
              /\ xml_response' = answer
              /\ geojson_features' = process_response(geojson_features, answer)
         /\ log' = Append(log, LogEntry("GET", url))
  /\ pos' = pos + 1
  /\ UNCHANGED <<pc, fs, fs0, index_response, xml_urls>>

\* The end of __main__: the loop is over (or was never entered); the
\* collection is saved when there is something to save.
finish_step ==
  /\ pc = "listed"
  /\ pos > Len(xml_urls)
  /\ pc' = "done"
  /\ IF should_save(xml_urls, geojson_features)
       THEN /\ fs' = save_geojson(fs, feature_collection(geojson_features),
                                  GEOJSON_FILE)
            /\ log' = Append(log, LogEntry("write",
                                           path_join(OUTPUT_DIR, GEOJSON_FILE)))
       ELSE UNCHANGED <<fs, log>>
  /\ UNCHANGED <<fs0, index_response, xml_response, xml_urls, pos, geojson_features>>

\* The state when the script starts, on one of the file systems of FileSystems.
InitOn(FileSystems) ==
  /\ pc = "start"
  /\ fs \in FileSystems
  /\ fs0 = fs
  /\ index_response = Unbound
  /\ xml_response = Unbound
  /\ xml_urls = <<>>
  /\ pos = 1
  /\ geojson_features = <<>>
  /\ log = <<>>

\* A run of __main__ against a server that answers out of the given sets.
RunNext(IndexAnswers, ResourceAnswers) ==
  \/ clean_old_files_step("start", "cleaned")
  \/ fetch_xml_urls_step(IndexAnswers)
  \/ process_resource_step(ResourceAnswers)
  \/ finish_step

----------------------------------------------------------------------------
(* Inputs: what the file system holds and what the server answers.         *)

PriorCollection ==
  feature_collection(<<make_feature(Str("Prior"), <<<< <<0, 0>> >>>>)>>)

\* The files a file system may hold when a run begins.
FileUniverse ==
  {[dir |-> OUTPUT_DIR, name |-> "old.xml"],
   [dir |-> OUTPUT_DIR, name |-> "b.xml"],
   [dir |-> OUTPUT_DIR, name |-> ".hidden.xml"],
   [dir |-> OUTPUT_DIR, name |-> "c.XML"],
   [dir |-> OUTPUT_DIR, name |-> "notes.txt"],
   [dir |-> OUTPUT_DIR, name |-> GEOJSON_FILE],
   [dir |-> path_join(OUTPUT_DIR, "sub"), name |-> "deep.xml"]}

\* The file system that holds exactly the files of present.
FileSystem(present) ==
  [dirs |-> {e.dir : e \in present}
            \cup (IF present = {} THEN {} ELSE {OUTPUT_DIR}),
   files |-> [e \in present |->
                IF e = OutputEntry THEN PriorCollection ELSE "stale"]]

AllFileSystems == {FileSystem(present) : present \in SUBSET FileUniverse}

\* A directory left by an earlier run.
RunFileSystems ==
  {FileSystem({[dir |-> OUTPUT_DIR, name |-> "old.xml"],
               [dir |-> path_join(OUTPUT_DIR, "sub"), name |-> "deep.xml"],
               OutputEntry})}

IndexError == [status |-> "request_error", links |-> <<>>]
IndexPage(links) == [status |-> "ok", links |-> links]
Anchor(href) == [href |-> href]

\* Anchors of listing runs: no href, an empty one, two resources, a page,
\* an upper-case extension and a target that is already rooted.
ListAnchors ==
  {Anchor(None), Anchor(Str("")), Anchor(Str("a.xml")), Anchor(Str("b.xml")),
   Anchor(Str("index.html")), Anchor(Str("a.XML")), Anchor(Str("/abs/c.xml"))}

ListIndexAnswers ==
  {IndexError} \cup {IndexPage(links) : links \in SeqUpTo(ListAnchors, MaxLinks)}

\* Anchors of full runs: one resource, listed any number of times.
RunAnchors == {Anchor(Str("a.xml"))}

RunIndexAnswers ==
  {IndexError} \cup {IndexPage(links) : links \in SeqUpTo(RunAnchors, MaxResources)}

FilesAnchors == {Anchor(Str("a.xml")), Anchor(Str("b.xml"))}

FilesIndexAnswers ==
  {IndexError} \cup {IndexPage(links) : links \in SeqUpTo(FilesAnchors, MaxResources)}

OneIndexAnswer == {IndexPage(<<Anchor(Str("a.xml"))>>)}

FetchError == [status |-> "request_error", zones |-> <<>>]
ParseError == [status |-> "parse_error", zones |-> <<>>]
Document(zones) == [status |-> "ok", zones |-> zones]
Zone(names, polygons) == [names |-> names, polygons |-> polygons]
Coord(lat, lon) ==
  [latitude |-> Elem(Str(lat)), longitude |-> Elem(Str(lon))]

\* Coordinate elements of zone runs: four points (two of them the same point
\* written differently) and the three ways float(...) raises.
Coords ==
  {Coord("1", "2"), Coord("1.0", "2.0"), Coord("3", "4"), Coord("5", "6"),
   [latitude |-> NoElement, longitude |-> Elem(Str("2"))],
   [latitude |-> Elem(Str("1")), longitude |-> Elem(None)],
   Coord("x", "2")}

Triangle == <<Coord("1", "2"), Coord("3", "4"), Coord("5", "6")>>
ClosedTriangle == <<Coord("1", "2"), Coord("3", "4"), Coord(" 1 ", "2.0")>>
BadPolygon == <<Coord("1", "2"), Coord("3", "abc")>>

PolygonCatalogue == {<<>>, Triangle, ClosedTriangle, BadPolygon}

NameLists ==
  {<<>>, <<None>>, <<Str(" ")>>, <<Str("A")>>, <<Str("A"), Str("B")>>,
   <<None, Str("A")>>}

\* Zones of zone runs: every name list with every short list of catalogue
\* polygons, and one named zone for every polygon element over Coords.
ZoneDomain ==
  {Zone(names, polygons) :
     names \in NameLists, polygons \in SeqUpTo(PolygonCatalogue, MaxPolys)}
  \cup {Zone(<<Str("A")>>, <<polygon>>) : polygon \in SeqUpTo(Coords, MaxCoords)}

ZoneAnswers == {Document(<<zone>>) : zone \in ZoneDomain}

\* Zones of full runs: two zones with rings, one without polygon element and
\* one whose second coordinate makes float(...) raise.
ZoneA == Zone(<<Str("A")>>, <<Triangle>>)
ZoneB == Zone(<<Str("B")>>, <<ClosedTriangle, <<Coord("5", "6")>>>>)
ZoneN == Zone(<<Str("N")>>, <<>>)
ZoneX == Zone(<<Str("X")>>, <<BadPolygon>>)
RunZones == {ZoneA, ZoneB, ZoneN, ZoneX}

RunAnswers ==
  {FetchError, ParseError}
  \cup {Document(zones) : zones \in SeqUpTo(RunZones, MaxZones)}

ListAnswers == {FetchError, Document(<<ZoneA>>)}

FilesAnswers == {FetchError, Document(<<ZoneN>>), Document(<<ZoneA>>)}

----------------------------------------------------------------------------
(* Specifications.                                                          *)

\* Full runs: every short list of resources, every short document.
Init == InitOn(RunFileSystems)
Next == RunNext(RunIndexAnswers, RunAnswers)
Spec == Init /\ [][Next]_vars

\* Listing runs: every index page over ListAnchors.
InitList == InitOn({FileSystem({})})
NextList == RunNext(ListIndexAnswers, ListAnswers)
SpecList == InitList /\ [][NextList]_vars

\* Zone runs: one resource that holds one zone of ZoneDomain.
InitZone == InitOn({FileSystem({})})
NextZone == RunNext(OneIndexAnswer, ZoneAnswers)
SpecZone == InitZone /\ [][NextZone]_vars

\* File runs: full runs on every file system, against few documents.
InitFiles == InitOn(AllFileSystems)
NextFiles == RunNext(FilesIndexAnswers, FilesAnswers)
SpecFiles == InitFiles /\ [][NextFiles]_vars

\* Cleanup runs: clean_old_files() twice in a row on every file system.
InitClean == InitOn(AllFileSystems)
NextClean ==
  \/ clean_old_files_step("start", "cleaned")
  \/ clean_old_files_step("cleaned", "cleaned_twice")
SpecClean == InitClean /\ [][NextClean]_vars

----------------------------------------------------------------------------
(* Vocabulary of the claims.                                                *)

\* The processing of a resource fails: the fetch fails, the document is
\* malformed, or the extraction of one of its zones raises.
Failed(response) ==
  \/ response.status # "ok"
  \/ \E k \in 1..Len(response.zones) : zone_raises(response.zones[k])

\* The Feature of a zone, as section 4.2 of the specification shapes it.
FeatureOf(zone) ==
  [type |-> "Feature",
   properties |-> [name |-> zone_name(zone)],
   geometry |->
     [type |-> "MultiPolygon",
      coordinates |->
        << [j \in 1..Len(zone.polygons) |-> build_ring(zone.polygons[j])] >>]]

\* One Feature per zone of zones that has a polygon element, in order.
FeaturesOf(zones) ==
  LET emitting == SelectSeq(zones, LAMBDA z : z.polygons # <<>>)
  IN  [k \in 1..Len(emitting) |-> FeatureOf(emitting[k])]

IsPrefix(s, t) == Len(s) <= Len(t) /\ SubSeq(t, 1, Len(s)) = s

\* A resource is about to be fetched.
InLoop == pc = "listed" /\ pos <= Len(xml_urls)

Gets(from) == {k \in from..Len(log) : log[k].op = "GET"}
Writes == {k \in 1..Len(log) : log[k].op = "write"}

----------------------------------------------------------------------------
\* What C1 asks of one step of a run.
C1_Step ==
  /\ InLoop =>
       /\ pc' = "listed"
       /\ pos' = pos + 1
       /\ xml_urls' = xml_urls
       /\ log' = Append(log, LogEntry("GET", xml_urls[pos]))
       /\ IsPrefix(geojson_features, geojson_features')
       /\ ~Failed(xml_response') =>
            geojson_features' =
              geojson_features \o FeaturesOf(xml_response'.zones)
  /\ pc' = "done" => pos' = Len(xml_urls') + 1

(* C1: a failure at one resource never aborts the loop: whatever failed    *)
(* before, every step taken while resources remain fetches the next listed *)
(* resource and moves on to the one after it, keeps the features           *)
(* accumulated so far as a prefix of the accumulated list, and, when the   *)
(* resource does not fail, appends all of its features; the run ends only  *)
(* after the last listed resource.                                          *)
C1_FailureIsolation == [][C1_Step]_vars

\* The second of three listed resources has just failed to be fetched: the
\* features of the first one are still there and the third one is next.
C1_Witness ==
  /\ InLoop
  /\ Len(xml_urls) = 3
  /\ pos = 3
  /\ xml_response = FetchError
  /\ geojson_features # <<>>

(* C2: a resource whose processing fails (fetch failure, malformed         *)
(* document, or a zone whose extraction raises) contributes zero features: *)
(* the step that processes it leaves the accumulated list as it was.       *)
C2_FailedContributesNothing ==
  [][(InLoop /\ Failed(xml_response'))
       => geojson_features' = geojson_features]_vars

----------------------------------------------------------------------------
(* Zone runs: the one zone of the one resource, once it was processed.     *)

ZoneDone == pc \in {"listed", "done"} /\ pos = 2
TheZone == xml_response.zones[1]

\* The (latitude, longitude) pair of a coordinate element, as parsed.
ParsedPair(coord) ==
  <<FloatValue[coord.latitude[1][1]], FloatValue[coord.longitude[1][1]]>>

(* C3: a polygon element without coordinate pairs produces no ring, and a  *)
(* zone emits a Feature if and only if it has at least one non-empty ring: *)
(* no emitted feature holds an empty ring, and a zone whose polygon        *)
(* elements are all empty, or that has none, emits no Feature.             *)
C3_NoEmptyRing ==
  (ZoneDone /\ ~zone_raises(TheZone)) =>
    /\ \A f \in 1..Len(geojson_features) :
         \A g \in 1..Len(geojson_features[f].geometry.coordinates) :
           \A r \in 1..Len(geojson_features[f].geometry.coordinates[g]) :
             geojson_features[f].geometry.coordinates[g][r] # <<>>
    /\ geojson_features # <<>>
         <=> \E k \in 1..Len(TheZone.polygons) : TheZone.polygons[k] # <<>>

(* C5: the ring emitted for a polygon element is its parsed (latitude,     *)
(* longitude) pairs in document order, each reordered to [longitude,       *)
(* latitude], followed by one copy of the first point exactly when the     *)
(* sequence is non-empty and its first and last points differ; so every    *)
(* non-empty emitted ring starts and ends with the same point, and a ring  *)
(* that is already closed gets no extra point.                             *)
C5_RingClosed ==
  (ZoneDone /\ geojson_features # <<>>) =>
    LET rings == geojson_features[1].geometry.coordinates[1]
    IN  /\ Len(rings) = Len(TheZone.polygons)
        /\ \A k \in 1..Len(rings) :
             LET polygon == TheZone.polygons[k]
                 n == Len(polygon)
                 ring == rings[k]
                 open == n > 0 /\ ParsedPair(polygon[1]) # ParsedPair(polygon[n])
             IN  /\ Len(ring) = IF open THEN n + 1 ELSE n
                 /\ \A i \in 1..n :
                      ring[i] = <<ParsedPair(polygon[i])[2],
                                  ParsedPair(polygon[i])[1]>>
                 /\ open => ring[n + 1] = <<ParsedPair(polygon[1])[2],
                                            ParsedPair(polygon[1])[1]>>
                 /\ ring # <<>> => ring[1] = ring[Len(ring)]

\* The example of the specification: (1,2),(3,4),(5,6) is emitted as
\* [2,1],[4,3],[6,5],[2,1].
C5_Witness ==
  /\ ZoneDone
  /\ TheZone.polygons = <<Triangle>>
  /\ geojson_features[1].geometry.coordinates[1][1]
       = << <<2, 1>>, <<4, 3>>, <<6, 5>>, <<2, 1>> >>

(* C8: the properties.name of every emitted Feature is a string: the text  *)
(* of the first name value of the zone, and "Unknown Zone" when that value *)
(* is absent or has no text; it is never null.                             *)
C8_NameIsString ==
  (ZoneDone /\ geojson_features # <<>>) =>
    /\ geojson_features[1].properties.name # None
    /\ geojson_features[1].properties.name =
         IF TheZone.names = <<>> \/ TheZone.names[1] = None
           THEN Str(UNKNOWN_ZONE)
           ELSE TheZone.names[1]

----------------------------------------------------------------------------
\* The anchor has an href, not empty, whose last four characters are ".xml".
EndsInXml(link) ==
  /\ link.href \notin {None, Str("")}
  /\ Len(link.href[1]) >= 4
  /\ \A i \in 1..4 :
       SubSeq(link.href[1], Len(link.href[1]) - 4 + i, Len(link.href[1]) - 4 + i)
         = SubSeq(".xml", i, i)

(* C6: when the index is fetched successfully, fetch_xml_urls returns      *)
(* exactly the href values ending in ".xml", each prefixed with the base   *)
(* address, in document order, duplicates kept, anchors with no or an      *)
(* empty href skipped; when the fetch fails it returns the empty list.     *)
C6_ListedUrls ==
  pc \in {"listed", "done"} =>
    IF index_response.status = "ok"
      THEN LET targets == SelectSeq(index_response.links, EndsInXml)
           IN  /\ Len(xml_urls) = Len(targets)
               /\ \A k \in 1..Len(targets) :
                    xml_urls[k] = BASE_URL \o targets[k].href[1]
      ELSE xml_urls = <<>>

\* An index page of three anchors, one of them skipped and the other two the
\* same target, listed twice.
C6_Witness ==
  /\ pc = "listed"
  /\ index_response.status = "ok"
  /\ Len(index_response.links) = 3
  /\ index_response.links[2].href = Str("a.XML")
  /\ xml_urls = <<BASE_URL \o "a.xml", BASE_URL \o "a.xml">>

----------------------------------------------------------------------------
\* The zones of a resource the extraction gets through: none when the fetch
\* or the parse fails, else those before the first zone that raises.
ZonesReached(response) ==
  IF response.status # "ok" THEN <<>>
  ELSE LET reached == {k \in 1..Len(response.zones) :
                         \A j \in 1..k : ~zone_raises(response.zones[j])}
       IN  SubSeq(response.zones, 1, Cardinality(reached))

\* What C7 asks of one step of a run.
C7_Step ==
  /\ pc \in {"start", "cleaned"} => geojson_features = <<>>
  /\ geojson_features' =
       IF InLoop
         THEN geojson_features \o FeaturesOf(ZonesReached(xml_response'))
         ELSE geojson_features
  /\ \A f \in 1..Len(geojson_features') :
       Len(geojson_features'[f].geometry.coordinates) = 1

(* C7: the features of the collection are, in order, one Feature per zone  *)
(* that emits one, resources taken in listed order and zones in document   *)
(* order, nothing deduplicated; the coordinates of each Feature are        *)
(* exactly one polygon group, which holds all rings of its zone in         *)
(* document order.  The zones of a resource that emit are those with a     *)
(* polygon element that precede the first zone whose extraction raises.    *)
C7_FeaturesInOrder == [][C7_Step]_vars

\* The collection holds the Feature of one zone twice, from two fetches,
\* around the two-ring Feature of another zone.
C7_Witness ==
  /\ pc = "done"
  /\ Len(geojson_features) = 3
  /\ geojson_features[1] = geojson_features[3]
  /\ geojson_features[1] # geojson_features[2]
  /\ Len(geojson_features[2].geometry.coordinates[1]) = 2

----------------------------------------------------------------------------
\* The output file is as it was when the run began: absent, or present with
\* the same content.
OutputUntouched ==
  /\ OutputEntry \in DOMAIN fs.files <=> OutputEntry \in DOMAIN fs0.files
  /\ OutputEntry \in DOMAIN fs.files =>
       fs.files[OutputEntry] = fs0.files[OutputEntry]

(* C4: in a full run, if the resource list is empty (also when the index   *)
(* fetch fails) or the extracted feature list is empty, save_geojson is    *)
(* never called: the run ends with no write made, the output file absent   *)
(* if it was absent and unchanged if it existed (cleanup does not touch it *)
(* either); and with an empty resource list no resource is fetched.        *)
C4_NoWriteWhenEmpty ==
  /\ index_response.status # "ok" => xml_urls = <<>>
  /\ Writes = {} => OutputUntouched
  /\ (pc = "done" /\ (xml_urls = <<>> \/ geojson_features = <<>>)) =>
       /\ Writes = {}
       /\ OutputUntouched
       /\ xml_urls = <<>> => (Gets(3) = {} /\ xml_response = Unbound)

\* A run that listed resources, extracted nothing from them and ended: the
\* stale old.xml is gone and the earlier output is still there.
C4_Witness ==
  /\ pc = "done"
  /\ xml_urls # <<>>
  /\ geojson_features = <<>>
  /\ OutputEntry \in DOMAIN fs0.files
  /\ fs.files[OutputEntry] = PriorCollection
  /\ [dir |-> OUTPUT_DIR, name |-> "old.xml"] \in DOMAIN fs0.files \ DOMAIN fs.files

----------------------------------------------------------------------------
(* C10: the steps of a run occur in a fixed order: cleanup, then the index *)
(* fetch, once, then the listed resources one after another in listed     *)
(* order, each list entry fetched at most once, then at most one write,    *)
(* made only after the last listed resource was processed; a run that has  *)
(* ended has cleaned up and fetched the index.                              *)
C10_StepOrder ==
  LET n == Len(xml_urls)
  IN  /\ Len(log) <= n + 3
      /\ \A k \in 1..Len(log) :
           log[k] = IF k = 1 THEN LogEntry("clean", OUTPUT_DIR)
                    ELSE IF k = 2 THEN LogEntry("GET", BASE_URL)
                    ELSE IF k <= n + 2 THEN LogEntry("GET", xml_urls[k - 2])
                    ELSE LogEntry("write", path_join(OUTPUT_DIR, GEOJSON_FILE))
      /\ pc = "start" => log = <<>>
      /\ pc = "cleaned" => Len(log) = 1
      /\ pc = "listed" => Len(log) = pos + 1
      /\ pc = "done" => Len(log) >= n + 2

\* A run that fetched three resources, two of them different, and wrote.
C10_Witness ==
  /\ pc = "done"
  /\ Len(log) = 6
  /\ log[3] # log[4]
  /\ log[6].op = "write"

----------------------------------------------------------------------------
\* The name matches the pattern *.xml.
MatchesStarXml(name) ==
  /\ Len(name) >= 4
  /\ SubSeq(name, Len(name) - 3, Len(name)) = ".xml"
  /\ SubSeq(name, 1, 1) # "."

(* C9: clean_old_files deletes exactly the files matching *.xml directly   *)
(* inside the output directory and leaves every other file, the output     *)
(* .geojson file included, unchanged; it succeeds when nothing matches:    *)
(* after a second call in a row the file system is what it was after the   *)
(* first.  (As for a shell, * matches no leading dot.)                      *)
C9_CleanExact ==
  /\ fs.dirs = fs0.dirs
  /\ pc \in {"cleaned", "cleaned_twice"} =>
       /\ DOMAIN fs.files =
            {e \in DOMAIN fs0.files :
               ~(e.dir = OUTPUT_DIR /\ MatchesStarXml(e.name))}
       /\ \A e \in DOMAIN fs.files : fs.files[e] = fs0.files[e]
  /\ pc = "start" => fs = fs0
  /\ pc = "cleaned_twice" => Len(log) = 2

\* Two calls in a row on a directory that held every file of the model: the
\* two matching files are gone, the five others are there.
C9_Witness ==
  /\ pc = "cleaned_twice"
  /\ DOMAIN fs0.files = FileUniverse
  /\ DOMAIN fs0.files \ DOMAIN fs.files =
       {[dir |-> OUTPUT_DIR, name |-> "old.xml"],
        [dir |-> OUTPUT_DIR, name |-> "b.xml"]}
  /\ fs.files[OutputEntry] = PriorCollection

=============================================================================
